---- MODULE Spec2Model ----
(***************************************************************************)
(* Model of carpenter.cpp: a WorkShop owning a workbench (Cabinet of size  *)
(* 1), a vector of Cabinets and an "Outside" Cabinet, driven by workOn.    *)
(*                                                                         *)
(* A Cabinet is a record [mSize, mStorage]; mStorage is the std::deque,    *)
(* index 1 being front().  An iterator is a position 1..Len, end() being   *)
(* Len + 1.  workOn is split at its sequence points (drain, one loop       *)
(* iteration of putInCabinet, the trailing addItem on mOutside, the        *)
(* lookup) so that the states inside a cascade are states of the model.    *)
(*                                                                         *)
(* Spec is the WorkShop under any sequence of workOn calls, SpecCabinet a  *)
(* single Cabinet under any sequence of addItem calls, SpecMain the whole  *)
(* of main from its first statement (input validation, construction, the   *)
(* loop over the items, printing).  The asserts of pop and pop_back are    *)
(* steps to pc = "aborted".                                                *)
(*                                                                         *)
(* Integer widths are scaled: Item is a signed ItemBits-bit integer (64 in *)
(* the source), Cabinet::mSize an unsigned SizeBits-bit one (16 in the     *)
(* source) and int a signed IntBits-bit one (32 in the source); the        *)
(* conversions are kept (% 2^w).                                           *)
(***************************************************************************)
EXTENDS Integers, Sequences, FiniteSets, TLC

\* ---------------------------------------------------------------- bounds
\* width of Item (int64_t in the source), scaled
ItemBits == 4
\* width of Cabinet::mSize (uint16_t in the source), scaled
SizeBits == 2
\* ordinary item values run over 1..MaxItem
MaxItem == 3
\* at most MaxTiers cabinets (64 in the source)
MaxTiers == 2
\* cabinet sizes run over 1..MaxCap (1..1023 in the source)
MaxCap == 2
\* number of workOn calls of a run
MaxCalls == 5
\* width of int (32 in the source), scaled
IntBits == 3
\* numbers on the first input line run over 0..MaxToken
MaxToken == 4

\* ------------------------------------------------------------ basic types
kSentinelItem == 2^(ItemBits - 1) - 1

\* values readInt can hand to workOn: ordinary ones and the extreme value
Items == (1..MaxItem) \cup {kSentinelItem}

\* cabinetSizes accepted by main: each in 1..MaxCap, at most MaxTiers
CabinetSizes == UNION {[1..n -> 1..MaxCap] : n \in 0..MaxTiers}

\* struct Result and its three constructors
ResultDefault == [cabinet_nr |-> kSentinelItem, status |-> ""]
ResultNr(nr) == [cabinet_nr |-> nr, status |-> ""]
ResultStr(str) == [cabinet_nr |-> kSentinelItem, status |-> str]

\* ---------------------------------------------------------------- Cabinet
\* Cabinet(int64_t size) : mSize(size), mSize being the narrower unsigned
Cabinet(size) == [mSize |-> size % (2^SizeBits), mStorage |-> <<>>]

end(c) == Len(c.mStorage) + 1

find(c, it) ==
  IF \E i \in 1..Len(c.mStorage) : c.mStorage[i] = it
  THEN CHOOSE i \in 1..Len(c.mStorage) :
         /\ c.mStorage[i] = it
         /\ \A k \in 1..(i - 1) : c.mStorage[k] # it
  ELSE end(c)

\* hasSpace with the comparison off by one
hasSpaceNoBound(c) == Len(c.mStorage) <= c.mSize

hasSpace(c) == Len(c.mStorage) < c.mSize

\* empty with its result negated
emptyInverted(c) == c.mStorage # <<>>

empty(c) == c.mStorage = <<>>

back(c) == c.mStorage[Len(c.mStorage)]

\* mStorage.pop_back()
dropBack(s) == SubSeq(s, 1, Len(s) - 1)

\* addItem evicting front() instead of back()
addItemEvictsFront(c, it) ==
  IF hasSpace(c)
  THEN [cab |-> [c EXCEPT !.mStorage = <<it>> \o @], ret |-> kSentinelItem]
  ELSE [cab |-> [c EXCEPT !.mStorage = <<it>> \o Tail(@)],
        ret |-> c.mStorage[1]]

\* addItem, pop and pop_back return the cabinet after the call and the value
addItem(c, it) ==
  IF hasSpace(c)
  THEN [cab |-> [c EXCEPT !.mStorage = <<it>> \o @], ret |-> kSentinelItem]
  ELSE [cab |-> [c EXCEPT !.mStorage = <<it>> \o dropBack(@)], ret |-> back(c)]

\* assert(item_it != end())
popAsserts(c, item_it) == item_it # end(c)

\* pop erasing the back entry instead of the one at item_it
popErasesBack(c, item_it) ==
  [cab |-> [c EXCEPT !.mStorage = dropBack(@)], ret |-> c.mStorage[item_it]]

pop(c, item_it) ==
  [cab |-> [c EXCEPT !.mStorage =
              SubSeq(@, 1, item_it - 1) \o SubSeq(@, item_it + 1, Len(@))],
   ret |-> c.mStorage[item_it]]

\* assert(!mStorage.empty())
pop_backAsserts(c) == Len(c.mStorage) > 0

\* pop_back without its mStorage.pop_back()
pop_backKeeps(c) == [cab |-> c, ret |-> back(c)]

pop_back(c) == [cab |-> [c EXCEPT !.mStorage = dropBack(@)], ret |-> back(c)]

\* --------------------------------------------------------------- WorkShop
VARIABLES
  cabinetSizes,   \* the constructor's argument
  mOutside,       \* Cabinet
  mWorkbench,     \* Cabinet
  mCabinets,      \* sequence of Cabinet
  pc,             \* "idle" | "cascade" | "outside" | "locate"
  current_item,   \* workOn's argument
  item,           \* putInCabinet's item
  extraItem,      \* putInCabinet's extraItem
  idx,            \* putInCabinet's position in mCabinets (1-based)
  res,            \* the Result of the last workOn that returned
  calls,          \* the items handed to workOn so far, in order
  stdin,          \* main's input not yet read: first line and count line
  mpc,            \* main's position
  nrElements,     \* main's nrElements
  constructed,    \* a WorkShop has been constructed
  output          \* what the program has printed

\* main's own state
mainVars == <<stdin, mpc, nrElements, constructed, output>>

vars == <<cabinetSizes, mOutside, mWorkbench, mCabinets, pc, current_item,
          item, extraItem, idx, res, calls, mainVars>>

\* class Cabinet: uint16_t mSize; std::deque<Item> mStorage
CabinetType ==
  [mSize : 0..(2^SizeBits - 1),
   mStorage : UNION {[1..n -> Items] : n \in 0..(2^SizeBits)}]

\* the members of WorkShop and the locals of workOn and putInCabinet
TypeOK ==
  /\ cabinetSizes \in CabinetSizes
  /\ mOutside \in CabinetType
  /\ mWorkbench \in CabinetType
  /\ mCabinets \in [1..Len(cabinetSizes) -> CabinetType]
  /\ pc \in {"idle", "cascade", "outside", "locate", "aborted"}
  /\ current_item \in Items
  /\ item \in Items
  /\ extraItem \in Items
  /\ idx \in 1..(Len(cabinetSizes) + 1)
  /\ res \in {ResultDefault, ResultStr("OUTSIDE"), ResultStr("NEW")}
               \cup {ResultNr(k) : k \in 1..Len(cabinetSizes)}
  /\ calls \in UNION {[1..n -> Items] : n \in 0..MaxCalls}
  /\ stdin.chars_ok \in BOOLEAN
  /\ stdin.count.ok \in BOOLEAN
  /\ mpc \in {"start", "sizes", "tiercount", "count", "construct", "loop",
              "exit", "done"}
  /\ nrElements \in Int
  /\ constructed \in BOOLEAN
  /\ output \in STRING

\* a line handed to readInt: ok is whether std::stoll converts it (it throws
\* on an empty or non-numeric line), val the number it yields
BadLine == [ok |-> FALSE, val |-> 0]

\* no input left to read
NoInput == [chars_ok |-> TRUE, sizes |-> <<>>, count |-> BadLine]

\* WorkShop(cabinetSizes) : mWorkbench(1), mOutside(kSentinelItem), with
\* main inside its loop over the items (lines 227-232)
Init ==
  /\ cabinetSizes \in CabinetSizes
  /\ mWorkbench = Cabinet(1)
  /\ mOutside = Cabinet(kSentinelItem)
  /\ mCabinets = [i \in 1..Len(cabinetSizes) |-> Cabinet(cabinetSizes[i])]
  /\ pc = "idle"
  /\ current_item = kSentinelItem
  /\ item = kSentinelItem
  /\ extraItem = kSentinelItem
  /\ idx = 1
  /\ res = ResultDefault
  /\ calls = <<>>
  /\ stdin = NoInput
  /\ mpc = "loop"
  /\ nrElements = MaxCalls
  /\ constructed = TRUE
  /\ output = ""

\* workOn, lines 122-126: entry, and the drain of the workbench up to the
\* entry of putInCabinet
WorkOnBegin(x) ==
  /\ pc = "idle"
  /\ Len(calls) < MaxCalls
  /\ current_item' = x
  /\ calls' = Append(calls, x)
  /\ IF ~empty(mWorkbench)
     THEN IF pop_backAsserts(mWorkbench)
          THEN /\ mWorkbench' = pop_back(mWorkbench).cab
               /\ item' = pop_back(mWorkbench).ret
               /\ extraItem' = kSentinelItem
               /\ idx' = 1
               /\ pc' = "cascade"
          ELSE /\ pc' = "aborted"
               /\ UNCHANGED <<mWorkbench, item, extraItem, idx>>
     ELSE /\ pc' = "locate"
          /\ UNCHANGED <<mWorkbench, item, extraItem, idx>>
  /\ UNCHANGED <<cabinetSizes, mOutside, mCabinets, res, mainVars>>

\* putInCabinet, lines 158-163: one iteration of the loop over mCabinets
CascadeStep ==
  /\ pc = "cascade"
  /\ idx <= Len(mCabinets)
  /\ LET r == addItem(mCabinets[idx], item)
     IN /\ mCabinets' = [mCabinets EXCEPT ![idx] = r.cab]
        /\ extraItem' = r.ret
        /\ IF r.ret # kSentinelItem
           THEN /\ item' = r.ret
                /\ idx' = idx + 1
                /\ pc' = "cascade"
           ELSE /\ pc' = "outside"
                /\ UNCHANGED <<item, idx>>
  /\ UNCHANGED <<cabinetSizes, mOutside, mWorkbench, current_item, res, calls,
                 mainVars>>

\* putInCabinet, line 158: the loop ends, every cabinet having been visited
CascadeExit ==
  /\ pc = "cascade"
  /\ idx > Len(mCabinets)
  /\ pc' = "outside"
  /\ UNCHANGED <<cabinetSizes, mOutside, mWorkbench, mCabinets, current_item,
                 item, extraItem, idx, res, calls, mainVars>>

\* putInCabinet, lines 164-166; the value addItem returns is discarded
PutOutside ==
  /\ pc = "outside"
  /\ IF item # kSentinelItem
     THEN mOutside' = addItem(mOutside, extraItem).cab
     ELSE UNCHANGED mOutside
  /\ pc' = "locate"
  /\ UNCHANGED <<cabinetSizes, mWorkbench, mCabinets, current_item, item,
                 extraItem, idx, res, calls, mainVars>>

\* the first cabinet holding it, Len(mCabinets) + 1 when none does
firstCabinetWith(cabs, it) ==
  IF \E j \in 1..Len(cabs) : find(cabs[j], it) # end(cabs[j])
  THEN CHOOSE j \in 1..Len(cabs) :
         /\ find(cabs[j], it) # end(cabs[j])
         /\ \A k \in 1..(j - 1) : find(cabs[k], it) = end(cabs[k])
  ELSE Len(cabs) + 1

\* workOn, lines 127-142
Locate ==
  /\ pc = "locate"
  /\ LET outside_item_it == find(mOutside, current_item)
         j == firstCabinetWith(mCabinets, current_item)
         asserts ==
           IF outside_item_it # end(mOutside)
           THEN popAsserts(mOutside, outside_item_it)
           ELSE j <= Len(mCabinets) =>
                  popAsserts(mCabinets[j], find(mCabinets[j], current_item))
     IN IF ~asserts
        THEN /\ pc' = "aborted"
             /\ UNCHANGED <<mOutside, mCabinets, mWorkbench, res>>
        ELSE /\ IF outside_item_it # end(mOutside)
                THEN /\ mOutside' = pop(mOutside, outside_item_it).cab
                     /\ res' = ResultStr("OUTSIDE")
                     /\ UNCHANGED mCabinets
                ELSE IF j <= Len(mCabinets)
                THEN /\ mCabinets' = [mCabinets EXCEPT
                          ![j] = pop(@, find(@, current_item)).cab]
                     /\ res' = ResultNr(j)
                     /\ UNCHANGED mOutside
                ELSE /\ res' = ResultStr("NEW")
                     /\ UNCHANGED <<mOutside, mCabinets>>
             /\ mWorkbench' = addItem(mWorkbench, current_item).cab
             /\ pc' = "idle"
  /\ UNCHANGED <<cabinetSizes, current_item, item, extraItem, idx, calls,
                 mainVars>>

Next ==
  \/ \E x \in Items : WorkOnBegin(x)
  \/ CascadeStep
  \/ CascadeExit
  \/ PutOutside
  \/ Locate

Spec == Init /\ [][Next]_vars

\* ------------------------------------------------------------------ main
INT_MAX == 2^(IntBits - 1) - 1

\* the numbers written on the first line, and the lines themselves
Tokens == 0..MaxToken

FirstLines == UNION {[1..n -> Tokens] : n \in 0..(MaxTiers + 1)}

\* the second line: not a number, or a count
CountLines == {BadLine} \cup {[ok |-> TRUE, val |-> v] : v \in -1..2}

\* stdin: whether the first line has only spaces and digits, the numbers on
\* it, and the second line
Inputs ==
  {[chars_ok |-> TRUE, sizes |-> l, count |-> c] :
     l \in FirstLines, c \in CountLines}
  \cup {[chars_ok |-> FALSE, sizes |-> <<>>, count |-> c] : c \in CountLines}

\* main before its first statement; no WorkShop exists
InitMain ==
  /\ stdin \in Inputs
  /\ mpc = "start"
  /\ cabinetSizes = <<>>
  /\ nrElements = 0
  /\ constructed = FALSE
  /\ output = ""
  /\ mWorkbench = Cabinet(1)
  /\ mOutside = Cabinet(kSentinelItem)
  /\ mCabinets = <<>>
  /\ pc = "none"
  /\ current_item = kSentinelItem
  /\ item = kSentinelItem
  /\ extraItem = kSentinelItem
  /\ idx = 1
  /\ res = ResultDefault
  /\ calls = <<>>

workshopVars == <<mOutside, mWorkbench, mCabinets, pc, current_item, item,
                  extraItem, idx, res, calls>>

\* inputError(): print INPUT_ERROR and exit(0)
inputError ==
  /\ output' = "INPUT_ERROR"
  /\ mpc' = "exit"

\* lines 199-205
MainCheckChars ==
  /\ mpc = "start"
  /\ IF ~stdin.chars_ok
     THEN inputError
     ELSE mpc' = "sizes" /\ UNCHANGED output
  /\ UNCHANGED <<stdin, nrElements, constructed, cabinetSizes, workshopVars>>

is_invalid_cabinet_size(size) == size <= 0 \/ size >= MaxCap + 1

\* iss >> cabinetSize with int cabinetSize: the next number of the line is
\* extracted unless the line is exhausted or the number does not fit an int
extracts(line, pos) == pos <= Len(line) /\ line[pos] <= INT_MAX

\* lines 211-216: one evaluation of the loop condition and, when the
\* extraction succeeds, of the body
MainReadSize ==
  /\ mpc = "sizes"
  /\ LET pos == Len(cabinetSizes) + 1
     IN IF ~extracts(stdin.sizes, pos)
        THEN mpc' = "tiercount" /\ UNCHANGED <<output, cabinetSizes>>
        ELSE IF is_invalid_cabinet_size(stdin.sizes[pos])
        THEN inputError /\ UNCHANGED cabinetSizes
        ELSE /\ cabinetSizes' = Append(cabinetSizes, stdin.sizes[pos])
             /\ UNCHANGED <<mpc, output>>
  /\ UNCHANGED <<stdin, nrElements, constructed, workshopVars>>

\* lines 217-219
MainTierCount ==
  /\ mpc = "tiercount"
  /\ IF Len(cabinetSizes) > MaxTiers
     THEN inputError
     ELSE mpc' = "count" /\ UNCHANGED output
  /\ UNCHANGED <<stdin, nrElements, constructed, cabinetSizes, workshopVars>>

\* lines 222-225
MainReadCount ==
  /\ mpc = "count"
  /\ IF ~stdin.count.ok
     THEN inputError /\ UNCHANGED nrElements
     ELSE /\ nrElements' = stdin.count.val
          /\ IF stdin.count.val = 0
             THEN inputError
             ELSE mpc' = "construct" /\ UNCHANGED output
  /\ UNCHANGED <<stdin, constructed, cabinetSizes, workshopVars>>

\* line 227: WorkShop workshop(cabinetSizes)
MainConstruct ==
  /\ mpc = "construct"
  /\ mWorkbench' = Cabinet(1)
  /\ mOutside' = Cabinet(kSentinelItem)
  /\ mCabinets' = [i \in 1..Len(cabinetSizes) |-> Cabinet(cabinetSizes[i])]
  /\ pc' = "idle"
  /\ constructed' = TRUE
  /\ mpc' = "loop"
  /\ UNCHANGED <<stdin, nrElements, output, cabinetSizes, current_item, item,
                 extraItem, idx, res, calls>>

\* i < nrElements with size_t i: nrElements converted to unsigned
loopBound == nrElements % (2^ItemBits)

\* lines 230-231: readInt yields x and workOn(x) is entered
MainWorkOn(x) ==
  /\ mpc = "loop"
  /\ Len(calls) < loopBound
  /\ WorkOnBegin(x)

\* lines 230-231: readInt meets a line std::stoll rejects (or the end of
\* the input)
MainBadItem ==
  /\ mpc = "loop"
  /\ pc = "idle"
  /\ Len(calls) < loopBound
  /\ inputError
  /\ UNCHANGED <<stdin, nrElements, constructed, cabinetSizes, workshopVars>>

\* lines 234-239
MainPrint ==
  /\ mpc = "loop"
  /\ pc = "idle"
  /\ Len(calls) >= loopBound
  /\ output' = IF res.cabinet_nr # kSentinelItem
               THEN ToString(res.cabinet_nr)
               ELSE res.status
  /\ mpc' = "done"
  /\ UNCHANGED <<stdin, nrElements, constructed, cabinetSizes, workshopVars>>

NextMain ==
  \/ MainCheckChars
  \/ MainReadSize
  \/ MainTierCount
  \/ MainReadCount
  \/ MainConstruct
  \/ \E x \in Items : MainWorkOn(x)
  \/ MainBadItem
  \/ MainPrint
  \/ CascadeStep
  \/ CascadeExit
  \/ PutOutside
  \/ Locate

SpecMain == InitMain /\ [][NextMain]_vars

\* ------------------------------------------------ one Cabinet on its own
\* a Cabinet of a size main accepts, as the WorkShop constructor makes it
InitCabinet ==
  /\ cabinetSizes \in {<<c>> : c \in 1..MaxCap}
  /\ mCabinets = <<Cabinet(cabinetSizes[1])>>
  /\ mWorkbench = Cabinet(1)
  /\ mOutside = Cabinet(kSentinelItem)
  /\ pc = "addItem"
  /\ current_item = kSentinelItem
  /\ item = kSentinelItem
  /\ extraItem = kSentinelItem
  /\ idx = 1
  /\ res = ResultDefault
  /\ calls = <<>>
  /\ stdin = NoInput
  /\ mpc = "loop"
  /\ nrElements = MaxCalls
  /\ constructed = TRUE
  /\ output = ""

\* extraItem = cabinet.addItem(item), the call of line 159 on its own;
\* calls records the items added
AddItemCall(x) ==
  /\ pc = "addItem"
  /\ Len(calls) < MaxCalls
  /\ LET r == addItem(mCabinets[1], x)
     IN /\ mCabinets' = <<r.cab>>
        /\ extraItem' = r.ret
  /\ item' = x
  /\ calls' = Append(calls, x)
  /\ UNCHANGED <<cabinetSizes, mOutside, mWorkbench, pc, current_item, idx,
                 res, mainVars>>

NextCabinet == \E x \in Items : AddItemCall(x)

SpecCabinet == InitCabinet /\ [][NextCabinet]_vars

\* ------------------------------------------------- vocabulary of the claims
N == Len(cabinetSizes)

RECURSIVE Flat(_)
\* the cabinets' contents, cabinet 1 front-to-back first
Flat(cabs) ==
  IF cabs = <<>> THEN <<>> ELSE Head(cabs).mStorage \o Flat(Tail(cabs))

\* workbench, then cabinets 1..N, then Outside
AllStores == mWorkbench.mStorage \o Flat(mCabinets) \o mOutside.mStorage

Occurrences(s, v) == Cardinality({i \in 1..Len(s) : s[i] = v})

Range(s) == {s[i] : i \in 1..Len(s)}

\* the items of the calls before the last one
Earlier == SubSeq(calls, 1, Len(calls) - 1)

\* a workOn call has returned and none is running
Returned == pc = "idle" /\ calls # <<>>

IsNew == res = ResultStr("NEW")

IsOutside == res = ResultStr("OUTSIDE")

IsTier(k) == res = ResultNr(k)

\* ------------------------------------------------------------------ claims

\* C1: with at least one cabinet, after each workOn call every item value
\* ever handed to workOn occurs exactly once across the workbench, the
\* cabinets and Outside.
C1_EachSeenItemExactlyOnce ==
  (Returned /\ N >= 1) =>
    \A v \in Range(calls) : Occurrences(AllStores, v) = 1

\* C2: in every state, those inside a cascade included, the workbench holds
\* at most one entry and cabinet k at most cabinetSizes[k] entries.
C2_CapacityRespected ==
  /\ Len(mWorkbench.mStorage) <= 1
  /\ \A k \in 1..Len(mCabinets) : Len(mCabinets[k].mStorage) <= cabinetSizes[k]

\* inside a cascade, a full first cabinet has just evicted its oldest item
C2_Witness ==
  /\ pc = "cascade"
  /\ idx = 2
  /\ Len(mCabinets[1].mStorage) = cabinetSizes[1]
  /\ extraItem # kSentinelItem

\* C3: after every workOn(x) the workbench holds exactly x, and at the
\* moment x is put there the workbench is empty (nothing is evicted).
C3_WorkbenchHoldsCurrent ==
  /\ Returned => mWorkbench.mStorage = <<current_item>>
  /\ pc = "locate" => empty(mWorkbench)

\* a call has returned after draining a different item off the workbench
C3_Witness ==
  /\ Returned
  /\ Len(calls) >= 2
  /\ calls[Len(calls) - 1] # current_item
  /\ mWorkbench.mStorage = <<current_item>>

\* C4: workOn(x) returns NEW exactly when x was handed to no earlier call;
\* otherwise it returns a cabinet number in 1..N or OUTSIDE.
C4_NewIffNeverSeen ==
  Returned =>
    /\ IsNew <=> current_item \notin Range(Earlier)
    /\ current_item \in Range(Earlier) =>
         (IsOutside \/ \E k \in 1..N : IsTier(k))

\* C5: with at least one cabinet, workOn(x) right after workOn(x) returns
\* cabinet 1.
C5_RepeatReturnsTierOne ==
  (Returned /\ N >= 1 /\ Len(calls) >= 2
     /\ calls[Len(calls) - 1] = current_item) => IsTier(1)

\* C6: with no cabinet the first workOn(x) returns NEW and x stays
\* retrievable: every item drained off the workbench is in Outside, and a
\* later workOn(x) returns OUTSIDE, not NEW.
C6_ZeroTiersDrainToOutside ==
  (Returned /\ N = 0) =>
    /\ Len(calls) = 1 => IsNew
    /\ \A v \in Range(calls) \ {current_item} : v \in Range(mOutside.mStorage)
    /\ (current_item \in Range(Earlier)
          /\ calls[Len(calls) - 1] # current_item) => IsOutside

\* C7: Outside has no capacity bound: whatever it holds, the addItem of
\* putInCabinet puts the new entry at its front and removes none.
C7_OutsideNeverEvicts ==
  [][(pc = "outside" /\ mOutside' # mOutside) =>
       \E v \in Items : mOutside'.mStorage = <<v>> \o mOutside.mStorage]_vars

\* C8: putInCabinet inserts into Outside only when the loop has passed the
\* last cabinet carrying an evicted item, and then inserts that item; in
\* every other cascade Outside is unchanged.  So Outside only ever holds
\* item values handed to workOn.
C8_OutsideOnlyGetsEvictedItems ==
  /\ [][pc = "outside" =>
          IF idx > Len(mCabinets) /\ Len(mCabinets) >= 1
          THEN mOutside'.mStorage[1] = item
               /\ Len(mOutside'.mStorage) >= Len(mOutside.mStorage)
          ELSE Len(mCabinets) >= 1 => mOutside' = mOutside]_vars
  /\ [](Range(mOutside.mStorage) \subseteq Range(calls))

\* position in calls of the most recent call on v before position n
LastBefore(v, n) ==
  CHOOSE p \in 1..(n - 1) :
    /\ calls[p] = v
    /\ \A q \in (p + 1)..(n - 1) : calls[q] # v

\* time of the most recent call on v
LastTime(v) == LastBefore(v, Len(calls) + 1)

\* the entries of Outside that were handed to workOn, front-to-back
ProcessedOutside ==
  SelectSeq(mOutside.mStorage, LAMBDA v : v \in Range(calls))

RecencyOrder ==
  mWorkbench.mStorage \o Flat(mCabinets) \o ProcessedOutside

\* C9: after every workOn call, reading the workbench, cabinets 1..N
\* front-to-back and the processed entries of Outside front-to-back, the
\* time of each item's most recent call is strictly decreasing.
C9_StoresOrderedByRecency ==
  Returned =>
    /\ \A i \in 1..Len(RecencyOrder) : RecencyOrder[i] \in Range(calls)
    /\ \A i, j \in 1..Len(RecencyOrder) :
         i < j => LastTime(RecencyOrder[i]) > LastTime(RecencyOrder[j])

\* number of distinct values handed to workOn since the most recent earlier
\* call on the current item
StackDistance ==
  LET p == LastBefore(current_item, Len(calls))
  IN Cardinality({calls[q] : q \in (p + 1)..(Len(calls) - 1)})

RECURSIVE SumSizes(_)
\* cabinetSizes[1] + ... + cabinetSizes[k]
SumSizes(k) == IF k = 0 THEN 0 ELSE cabinetSizes[k] + SumSizes(k - 1)

\* C10: with N >= 1, a workOn(x) whose x was seen before, d distinct values
\* having been handed over since, returns the cabinet k with
\* c_1+..+c_(k-1) < d+1 <= c_1+..+c_k, and OUTSIDE when d+1 > c_1+..+c_N.
C10_ProvenanceIsStackDistance ==
  (Returned /\ N >= 1 /\ current_item \in Range(Earlier)) =>
    LET d == StackDistance
    IN /\ \A k \in 1..N :
            (SumSizes(k - 1) < d + 1 /\ d + 1 <= SumSizes(k)) => IsTier(k)
       /\ d + 1 > SumSizes(N) => IsOutside

\* the last n entries of s, newest first
NewestFirst(s, n) == [i \in 1..n |-> s[Len(s) + 1 - i]]

Min(a, b) == IF a < b THEN a ELSE b

\* C11: addItem on a Cabinet of size C: below C entries it pushes the item
\* to the front and returns kSentinelItem (no eviction); at C entries it
\* removes and returns the back entry, the least recently added one, pushes
\* the item to the front and keeps the other C-1 entries in order.  So after
\* n additions the Cabinet holds the last min(n, C) items added, newest
\* first, and for n > C the value returned is the item added C calls before.
C11_AddItemEvictsOldest ==
  (pc = "addItem" /\ calls # <<>>) =>
    LET C == cabinetSizes[1]
        n == Len(calls)
    IN /\ mCabinets[1].mStorage = NewestFirst(calls, Min(n, C))
       /\ n <= C => extraItem = kSentinelItem
       /\ n > C => extraItem = calls[n - C]

\* C distinct items were added, then one more: the first one added came back
C11_Witness ==
  /\ pc = "addItem"
  /\ Len(calls) = cabinetSizes[1] + 1
  /\ Cardinality(Range(calls)) = Len(calls)
  /\ cabinetSizes[1] = MaxCap
  /\ extraItem = calls[1]
  /\ kSentinelItem \notin Range(calls)

\* every capacity written on the first line is in 1..MaxCap (1..1023 in
\* the source), there are at most MaxTiers (64) of them, and the item
\* count is a number other than zero
InputValid ==
  /\ stdin.chars_ok
  /\ \A i \in 1..Len(stdin.sizes) : stdin.sizes[i] \in 1..MaxCap
  /\ Len(stdin.sizes) <= MaxTiers
  /\ stdin.count.ok
  /\ stdin.count.val # 0

\* C12: validation precedes construction: a WorkShop is constructed (and
\* workOn called) only if every capacity of the input is in range, there are
\* at most MaxTiers of them and the item count is not zero; otherwise the
\* program prints INPUT_ERROR and never constructs a WorkShop.
C12_ValidationBeforeConstruction ==
  /\ (constructed \/ calls # <<>>) => InputValid
  /\ (mpc \in {"exit", "done"} /\ ~InputValid) =>
       (output = "INPUT_ERROR" /\ ~constructed)

\* C13: on a WorkShop built from valid sizes no assertion fails: pop is only
\* called with a position of a held item, pop_back only on a non-empty
\* Cabinet.
C13_NoAssertionFails == pc # "aborted"

\* a call has returned for which both pop_back (the drain) and pop (the
\* item was found in a cabinet) were called
C13_Witness ==
  /\ Returned
  /\ Len(calls) >= 2
  /\ \E k \in 1..N : IsTier(k)

\* t is s with one occurrence of x taken out, the rest in order
RemovedOne(s, t, x) ==
  \E i \in 1..Len(s) :
    /\ s[i] = x
    /\ t = SubSeq(s, 1, i - 1) \o SubSeq(s, i + 1, Len(s))

Holds(c, x) == x \in Range(c.mStorage)

\* C14: the lookup of workOn(x) searches Outside first, then cabinets 1..N in
\* order, stops at the first store holding x and takes one occurrence of x
\* out of it; every other store is unchanged and the rest of that store keeps
\* its order.  When x is nowhere, no cabinet and no Outside entry changes.
C14_LookupFrame ==
  [][(pc = "locate" /\ pc' = "idle") =>
       LET x == current_item
       IN IF Holds(mOutside, x)
          THEN /\ RemovedOne(mOutside.mStorage, mOutside'.mStorage, x)
               /\ mCabinets' = mCabinets
               /\ res' = ResultStr("OUTSIDE")
          ELSE IF \E j \in 1..N : Holds(mCabinets[j], x)
          THEN \E j \in 1..N :
                 /\ Holds(mCabinets[j], x)
                 /\ \A k \in 1..(j - 1) : ~Holds(mCabinets[k], x)
                 /\ RemovedOne(mCabinets[j].mStorage,
                               mCabinets'[j].mStorage, x)
                 /\ \A k \in 1..N : k # j => mCabinets'[k] = mCabinets[k]
                 /\ mOutside' = mOutside
                 /\ res' = ResultNr(j)
          ELSE /\ mCabinets' = mCabinets
               /\ mOutside' = mOutside
               /\ res' = ResultStr("NEW")]_vars

\* the item was taken out of the second cabinet, which holds it no more but
\* still holds another entry, while the other stores are occupied
C14_Witness ==
  /\ Returned
  /\ N = 2
  /\ IsTier(2)
  /\ mCabinets[2].mStorage # <<>>
  /\ ~Holds(mCabinets[2], current_item)
  /\ mCabinets[1].mStorage # <<>>
  /\ mOutside.mStorage # <<>>

\* C15: the cascade of a drained item w visits the cabinets in order from
\* cabinet 1: cabinet 1 receives w at its front, each further cabinet
\* visited receives at its front the item evicted from the one before, the
\* cascade stops at the first cabinet that had free space and the cabinets
\* after it are unchanged; every visited cabinet that was full loses exactly
\* its oldest entry, which is carried on.
C15_CascadeVisitsInOrder ==
  [][(pc = "cascade" /\ idx <= N) =>
       LET s == mCabinets[idx].mStorage
       IN /\ idx = 1 => item = calls[Len(calls) - 1]
          /\ \A k \in 1..N : k # idx => mCabinets'[k] = mCabinets[k]
          /\ IF Len(s) < cabinetSizes[idx]
             THEN /\ mCabinets'[idx].mStorage = <<item>> \o s
                  /\ pc' = "outside"
             ELSE /\ mCabinets'[idx].mStorage = <<item>> \o dropBack(s)
                  /\ idx < N =>
                       /\ pc' = "cascade"
                       /\ idx' = idx + 1
                       /\ item' = s[Len(s)]]_vars

\* C16: workOn treats the value kSentinelItem like any other item value: the
\* first call for it returns NEW and a later call does not, and a cascade
\* that evicts or carries it goes on to the next cabinet (or to Outside after
\* the last one) exactly as for any other value.
C16_SentinelValueIsOrdinary ==
  /\ [][(pc = "cascade" /\ idx <= N /\ ~hasSpace(mCabinets[idx])
           /\ back(mCabinets[idx]) = kSentinelItem) =>
          (pc' = "cascade" /\ idx' = idx + 1 /\ item' = kSentinelItem)]_vars
  /\ [][(pc = "outside" /\ idx > N /\ N >= 1 /\ item = kSentinelItem) =>
          (Len(mOutside'.mStorage) > 0 /\ mOutside'.mStorage[1] = item
             /\ mOutside' # mOutside)]_vars
  /\ []((Returned /\ current_item = kSentinelItem) =>
          (IsNew <=> kSentinelItem \notin Range(Earlier)))

\* the items of the calls that have returned
Processed == IF pc = "idle" THEN Range(calls) ELSE Range(Earlier)

\* cabinet k has free space although a later cabinet is occupied or Outside
\* holds a processed item
Hole(k) ==
  /\ Len(mCabinets[k].mStorage) < cabinetSizes[k]
  /\ \/ \E j \in (k + 1)..N : mCabinets[j].mStorage # <<>>
     \/ \E v \in Processed : Holds(mOutside, v)

Holes == {k \in 1..N : Hole(k)}

\* C17: with N >= 1 the cabinets fill as a packed prefix with at most one
\* hole: after every workOn call at most one cabinet is a hole, and it
\* misses exactly one entry; right after the drain of the next call there is
\* none.
C17_PackedPrefixOneHole ==
  N >= 1 =>
    /\ Returned =>
         /\ Cardinality(Holes) <= 1
         /\ \A k \in Holes :
              Len(mCabinets[k].mStorage) = cabinetSizes[k] - 1
    /\ pc = "locate" => Holes = {}

====
